---- MODULE Spec2Model ----
(***************************************************************************)
(* RingBuffer<T, N> of src/lib.rs: a fixed-capacity queue built from three *)
(* atomic counters (start, end, reserved) and an array of N raw slots.     *)
(* Every atomic load, compare-exchange, volatile slot write and volatile   *)
(* slot read of try_insert and try_get is one step of the calling thread;  *)
(* threads interleave freely.  The atomics are modelled as sequentially    *)
(* consistent.  The callers are the clients of the tests module.           *)
(***************************************************************************)
EXTENDS Integers, Sequences, FiniteSets, TLC

\* ------------------------------------------------------------------ bounds
\* capacity of the buffer (the const generic N)
N == 3
\* threads the tests run at once (two_producer_one_consumer: two spawned and the main thread)
NThreads == 3
\* number of free concurrent callers
NFree == 2
\* calls the single-threaded client makes
MaxSeqCalls == 10
\* calls the concurrent free callers make in total
MaxCalls == 6
\* values each test producer inserts
MaxCount == 4
\* calls the concurrent free callers make in total when termination is checked
MaxFairCalls == 4

\* ------------------------------------------------------- values and results
\* contents of a slot that was never written (MaybeUninit::uninit())
Uninit == -2
\* what a volatile read may see of a slot another thread is writing
Torn == -1

Threads == 1..NThreads
Slots == 0..(N - 1)

ROk == <<"Ok">>
RErr(val) == <<"Err", val>>
RSome(val) == <<"Some", val>>
RNone == <<"None">>
RPending == <<"Pending">>

\* ----------------------------------------------------------------- clients
\* tests::single_thread_*: one thread, any sequence of calls, inserting 1,2,3,...
Main == [kind |-> "main", stride |-> 1, offset |-> 0]
\* a free concurrent caller: any calls, distinct values
Free == [kind |-> "free", stride |-> 1, offset |-> 0]
\* a free concurrent caller of the runs in which termination is checked
FewCalls == [kind |-> "few", stride |-> 1, offset |-> 0]
\* the producer loops of the two-thread tests: inserts x*stride + offset, retrying on Err
Producer(stride, offset) == [kind |-> "producer", stride |-> stride, offset |-> offset]
\* the polling consumer loop of the two-thread tests
Consumer == [kind |-> "consumer", stride |-> 1, offset |-> 0]
\* a thread that is not spawned
Absent == [kind |-> "absent", stride |-> 1, offset |-> 0]

VARIABLES
    start,      \* RingBuffer.start
    end,        \* RingBuffer.end
    reserved,   \* RingBuffer.reserved
    data,       \* RingBuffer.data, by physical index
    pc,         \* per thread: where it is in try_insert / try_get
    v,          \* per thread: try_insert's argument
    l_reserved, \* per thread: try_insert's local reserved
    l_start,    \* per thread: try_get's local start
    place,      \* per thread: try_insert's place
    val_uninit, \* per thread: try_get's val_uninit
    result,     \* per thread: what its last call returned
    role,       \* per thread: its client
    x,          \* per thread: the loop counter of a test producer
    calls,      \* calls begun by main / free callers
    offered,    \* try_insert calls begun by main / free callers
    hist,       \* the single-threaded client's log of completed calls
    put,        \* values by logical position, in the order positions were reserved
    got,        \* position and value of each Some returned, in the order start was advanced
    alive,      \* the RingBuffer has not been destroyed
    dropped     \* the values whose destructor ran when the RingBuffer was destroyed

vars == <<start, end, reserved, data, pc, v, l_reserved, l_start, place,
          val_uninit, result, role, x, calls, offered, hist, put, got, alive, dropped>>

shared == <<start, end, reserved, data>>
locals == <<v, l_reserved, l_start, place, val_uninit>>
client == <<role, x, calls, offered>>
life == <<alive, dropped>>

\* RingBuffer::new and the threads before their first call
InitBuffer ==
    /\ start = 0
    /\ end = 0
    /\ reserved = 0
    /\ data = [i \in Slots |-> Uninit]
    /\ pc = [t \in Threads |-> "idle"]
    /\ v = [t \in Threads |-> 0]
    /\ l_reserved = [t \in Threads |-> 0]
    /\ l_start = [t \in Threads |-> 0]
    /\ place = [t \in Threads |-> 0]
    /\ val_uninit = [t \in Threads |-> Uninit]
    /\ result = [t \in Threads |-> RPending]
    /\ x = [t \in Threads |-> 0]
    /\ calls = 0
    /\ offered = 0
    /\ hist = <<>>
    /\ put = <<>>
    /\ got = <<>>
    /\ alive = TRUE
    /\ dropped = <<>>

\* any number of threads calling try_insert and try_get freely
Init == InitBuffer /\ role = [t \in Threads |-> IF t <= NFree THEN Free ELSE Absent]

\* threads calling try_insert and try_get freely, fewer calls in all
InitFair == InitBuffer /\ role = [t \in Threads |-> IF t <= NFree THEN FewCalls ELSE Absent]

\* tests::single_thread_simple / _overflow / _full: one thread
InitSeq == InitBuffer /\ role = [t \in Threads |-> IF t = 1 THEN Main ELSE Absent]

\* tests::two_thread_count_million: one counting producer, one polling consumer
InitSPSC ==
    InitBuffer /\ role = [t \in Threads |->
        IF t = 1 THEN Producer(1, 0) ELSE IF t = 2 THEN Consumer ELSE Absent]

\* tests::two_producer_one_consumer: evens, odds, one polling consumer
InitMPSC ==
    InitBuffer /\ role = [t \in Threads |->
        IF t = 1 THEN Producer(2, 0) ELSE IF t = 2 THEN Producer(2, 1)
        ELSE IF t = 3 THEN Consumer ELSE Absent]

\* how many values the spawned test producers insert in all
Expected == MaxCount * Cardinality({t \in Threads : role[t].kind = "producer"})

\* the values thread t's client may pass to try_insert now
MayInsert(t) ==
    CASE role[t].kind = "main" -> IF calls < MaxSeqCalls THEN {offered + 1} ELSE {}
      [] role[t].kind = "free" -> IF calls < MaxCalls THEN {offered + 1} ELSE {}
      [] role[t].kind = "few" -> IF calls < MaxFairCalls THEN {offered + 1} ELSE {}
      [] role[t].kind = "producer" ->
            IF x[t] < MaxCount THEN {x[t] * role[t].stride + role[t].offset} ELSE {}
      [] OTHER -> {}

\* whether thread t's client may call try_get now
MayGet(t) ==
    CASE role[t].kind = "main" -> calls < MaxSeqCalls
      [] role[t].kind = "free" -> calls < MaxCalls
      [] role[t].kind = "few" -> calls < MaxFairCalls
      [] role[t].kind = "consumer" -> Len(got) < Expected
      [] OTHER -> FALSE

Counted(t) == role[t].kind \in {"main", "free", "few"}

\* the client's bookkeeping when a call of thread t returns res
Return(t, op, arg, res) ==
    /\ result' = [result EXCEPT ![t] = res]
    /\ pc' = [pc EXCEPT ![t] = "idle"]
    /\ hist' = IF role[t].kind = "main"
               THEN Append(hist, [op |-> op, arg |-> arg, res |-> res])
               ELSE hist
    /\ x' = IF role[t].kind = "producer" /\ res = ROk
            THEN [x EXCEPT ![t] = @ + 1]
            ELSE x

\* ------------------------------------------------------------- try_insert
BeginInsert(t) ==
    /\ pc[t] = "idle"
    /\ alive
    /\ UNCHANGED life
    /\ \E val \in MayInsert(t) :
          /\ v' = [v EXCEPT ![t] = val]
          /\ pc' = [pc EXCEPT ![t] = "i_load_reserved"]
          /\ result' = [result EXCEPT ![t] = RPending]
          /\ calls' = IF Counted(t) THEN calls + 1 ELSE calls
          /\ offered' = IF Counted(t) THEN offered + 1 ELSE offered
    /\ UNCHANGED <<shared, l_reserved, l_start, place, val_uninit,
                   role, x, hist, put, got>>

\* let reserved = self.reserved.load(Relaxed)
InsertLoadReserved(t) ==
    /\ pc[t] = "i_load_reserved"
    /\ UNCHANGED life
    /\ l_reserved' = [l_reserved EXCEPT ![t] = reserved]
    /\ pc' = [pc EXCEPT ![t] = "i_load_start"]
    /\ UNCHANGED <<shared, v, l_start, place, val_uninit, result,
                   client, hist, put, got>>

\* a full test that lets one insertion too many through
IsFullLate(r, s) == r = s + N + 1

\* a full test that rejects one insertion too early
IsFullEarly(r, s) == r = s + N - 1

\* the full test of try_insert on its two local reads: reserved == start + N
IsFull(r, s) == r = s + N

\* a plain store in place of the compare-exchange
CasAlways(cur, expected) == TRUE

\* whether compare_exchange_weak(expected, _) may succeed when the atomic holds cur
Cas(cur, expected) == cur = expected

\* let start = self.start.load(Acquire); if reserved == start + N { return Err(v) }
\* (the local start is not read again after the comparison, so it is not kept)
InsertLoadStart(t) ==
    /\ pc[t] = "i_load_start"
    /\ UNCHANGED life
    /\ IF IsFull(l_reserved[t], start)
       THEN /\ Return(t, "insert", v[t], RErr(v[t]))
            /\ UNCHANGED l_start
            /\ l_reserved' = [l_reserved EXCEPT ![t] = 0]
            /\ v' = [v EXCEPT ![t] = 0]
       ELSE /\ pc' = [pc EXCEPT ![t] = "i_cas"]
            /\ UNCHANGED <<l_start, l_reserved, v, result, hist, x>>
    /\ UNCHANGED <<shared, place, val_uninit, role, calls, offered, put, got>>

\* a claim of the position after the one the compare-exchange won
ClaimedNext(r) == r + 1

\* the position a producer owns after winning the compare-exchange: break reserved
Claimed(r) == r

\* self.reserved.compare_exchange_weak(reserved, reserved + 1) => Ok: break reserved
ReserveCasOk(t) ==
    /\ pc[t] = "i_cas"
    /\ UNCHANGED life
    /\ Cas(reserved, l_reserved[t])
    /\ reserved' = l_reserved[t] + 1
    /\ place' = [place EXCEPT ![t] = Claimed(l_reserved[t])]
    /\ put' = Append(put, v[t])
    /\ l_reserved' = [l_reserved EXCEPT ![t] = 0]
    /\ pc' = [pc EXCEPT ![t] = "i_write"]
    /\ UNCHANGED <<start, end, data, v, l_start, val_uninit, result, client, hist, got>>

\* the compare-exchange fails (reserved moved, or spuriously): loop again
ReserveCasFail(t) ==
    /\ pc[t] = "i_cas"
    /\ UNCHANGED life
    /\ l_reserved' = [l_reserved EXCEPT ![t] = 0]
    /\ pc' = [pc EXCEPT ![t] = "i_load_reserved"]
    /\ UNCHANGED <<shared, v, l_start, place, val_uninit, result, client, hist, put, got>>

\* an index that saturates at the last slot instead of wrapping
IndexNoWrap(p) == IF p < N THEN p ELSE N - 1

\* the physical index of a logical position
Index(p) == p % N

\* self.data[index].get().write_volatile(MaybeUninit::new(v))
InsertWrite(t) ==
    /\ pc[t] = "i_write"
    /\ UNCHANGED life
    /\ data' = [data EXCEPT ![Index(place[t])] = v[t]]
    /\ pc' = [pc EXCEPT ![t] = "i_publish"]
    /\ UNCHANGED <<start, end, reserved, locals, result, client, hist, put, got>>

\* self.end.compare_exchange_weak(place, place + 1) => Ok: break; Ok(())
PublishCasOk(t) ==
    /\ pc[t] = "i_publish"
    /\ UNCHANGED life
    /\ Cas(end, place[t])
    /\ end' = place[t] + 1
    /\ Return(t, "insert", v[t], ROk)
    /\ v' = [v EXCEPT ![t] = 0]
    /\ place' = [place EXCEPT ![t] = 0]
    /\ UNCHANGED <<start, reserved, data, l_reserved, l_start, val_uninit,
                   role, calls, offered, put, got>>

\* the compare-exchange on end fails (end is not place, or spuriously): spin
PublishCasFail(t) ==
    /\ pc[t] = "i_publish"
    /\ UNCHANGED vars

\* ---------------------------------------------------------------- try_get
BeginGet(t) ==
    /\ pc[t] = "idle"
    /\ alive
    /\ UNCHANGED life
    /\ MayGet(t)
    /\ pc' = [pc EXCEPT ![t] = "g_load_start"]
    /\ result' = [result EXCEPT ![t] = RPending]
    /\ calls' = IF Counted(t) THEN calls + 1 ELSE calls
    /\ UNCHANGED <<shared, locals, role, x, offered, hist, put, got>>

\* let start = self.start.load(Relaxed)
GetLoadStart(t) ==
    /\ pc[t] = "g_load_start"
    /\ UNCHANGED life
    /\ l_start' = [l_start EXCEPT ![t] = start]
    /\ pc' = [pc EXCEPT ![t] = "g_load_end"]
    /\ UNCHANGED <<shared, v, l_reserved, place, val_uninit, result,
                   client, hist, put, got>>

\* an empty test that is off by one: a single element counts as none
IsEmptyOffByOne(s, e) == s + 1 >= e

\* an empty test with the comparison the wrong way: equal counters pass
IsEmptyWrongCmp(s, e) == s > e

\* the empty test of try_get on its two local reads
IsEmpty(s, e) == s = e

\* let end = self.end.load(Acquire); if start == end { return None }
\* (the local end is not read again after the comparison, so it is not kept)
GetLoadEnd(t) ==
    /\ pc[t] = "g_load_end"
    /\ UNCHANGED life
    /\ IF IsEmpty(l_start[t], end)
       THEN /\ Return(t, "get", 0, RNone)
            /\ l_start' = [l_start EXCEPT ![t] = 0]
       ELSE /\ pc' = [pc EXCEPT ![t] = "g_read"]
            /\ UNCHANGED <<l_start, result, hist, x>>
    /\ UNCHANGED <<shared, v, l_reserved, place, val_uninit, role, calls, offered,
                   put, got>>

\* a producer has claimed physical slot i and has not finished writing it
UnderWrite(i) == \E u \in Threads : pc[u] = "i_write" /\ Index(place[u]) = i

\* what a volatile read of slot i may yield: racing with a write is a data race
SlotRead(i) == IF UnderWrite(i) THEN {data[i], Torn} ELSE {data[i]}

\* let val_uninit = self.data[start % N].get().read_volatile()
GetRead(t) ==
    /\ pc[t] = "g_read"
    /\ UNCHANGED life
    /\ \E val \in SlotRead(Index(l_start[t])) :
          val_uninit' = [val_uninit EXCEPT ![t] = val]
    /\ pc' = [pc EXCEPT ![t] = "g_cas"]
    /\ UNCHANGED <<shared, v, l_reserved, l_start, place, result, client, hist, put, got>>

\* self.start.compare_exchange_weak(start, start + 1) => Ok: return Some(val)
GetCasOk(t) ==
    /\ pc[t] = "g_cas"
    /\ UNCHANGED life
    /\ Cas(start, l_start[t])
    /\ start' = l_start[t] + 1
    /\ Return(t, "get", 0, RSome(val_uninit[t]))
    /\ got' = Append(got, [pos |-> l_start[t], val |-> val_uninit[t]])
    /\ l_start' = [l_start EXCEPT ![t] = 0]
    /\ val_uninit' = [val_uninit EXCEPT ![t] = Uninit]
    /\ UNCHANGED <<end, reserved, data, v, l_reserved, place,
                   role, calls, offered, put>>

\* the compare-exchange on start fails (start moved, or spuriously): loop again
GetCasFail(t) ==
    /\ pc[t] = "g_cas"
    /\ UNCHANGED life
    /\ l_start' = [l_start EXCEPT ![t] = 0]
    /\ val_uninit' = [val_uninit EXCEPT ![t] = Uninit]
    /\ pc' = [pc EXCEPT ![t] = "g_load_start"]
    /\ UNCHANGED <<shared, v, l_reserved, place, result, client, hist, put, got>>

\* ------------------------------------------------------------ destruction
\* what the drop glue of RingBuffer drops of the slots: there is no impl Drop,
\* the fields are atomics and an array of UnsafeCell<MaybeUninit<T>>, and
\* MaybeUninit<T> never runs the destructor of its contents
DropGlue == <<>>

\* the owner lets the RingBuffer go out of scope; no thread borrows it any more
Destroy ==
    /\ alive
    /\ \A t \in Threads : pc[t] = "idle"
    /\ alive' = FALSE
    /\ dropped' = DropGlue
    /\ UNCHANGED <<shared, pc, locals, result, client, hist, put, got>>

\* ------------------------------------------------------------ specification
Step(t) ==
    \/ BeginInsert(t)
    \/ InsertLoadReserved(t)
    \/ InsertLoadStart(t)
    \/ ReserveCasOk(t)
    \/ ReserveCasFail(t)
    \/ InsertWrite(t)
    \/ PublishCasOk(t)
    \/ PublishCasFail(t)
    \/ BeginGet(t)
    \/ GetLoadStart(t)
    \/ GetLoadEnd(t)
    \/ GetRead(t)
    \/ GetCasOk(t)
    \/ GetCasFail(t)

Next ==
    \/ \E t \in Threads : Step(t)
    \/ Destroy

Spec == Init /\ [][Next]_vars
SpecSeq == InitSeq /\ [][Next]_vars
SpecSPSC == InitSPSC /\ [][Next]_vars
SpecMPSC == InitMPSC /\ [][Next]_vars

\* ------------------------------------------------ the single-threaded log
IsInsert(e) == e.op = "insert"
IsGet(e) == e.op = "get"
IsOkInsert(e) == e.op = "insert" /\ e.res = ROk
IsSomeGet(e) == e.op = "get" /\ e.res[1] = "Some"

\* elements the buffer holds after the first n logged calls
Held(n) ==
    Cardinality({j \in 1..n : IsOkInsert(hist[j])})
        - Cardinality({j \in 1..n : IsSomeGet(hist[j])})

\* the thread of the single-threaded client is between two calls
Quiet == \A t \in Threads : pc[t] = "idle"

\* C1: single-threaded FIFO. Starting from a new buffer, when the log is k <= N
\* try_insert calls followed only by try_get calls, every one of the k inserts
\* returned Ok and the j-th try_get (j <= k) returned Some of the j-th inserted value.
C1_Fifo ==
    \A k \in 0..N :
        (/\ k <= Len(hist)
         /\ \A i \in 1..k : IsInsert(hist[i])
         /\ \A i \in (k + 1)..Len(hist) : IsGet(hist[i]))
        => /\ \A i \in 1..k : hist[i].res = ROk /\ hist[i].arg = i
           /\ \A j \in 1..k : k + j <= Len(hist) => hist[k + j].res = RSome(hist[j].arg)

\* C1 witness: N inserts and then N removals have completed, the last returning
\* the last value inserted
C1_Witness ==
    /\ Len(hist) = 2 * N
    /\ \A i \in 1..N : IsInsert(hist[i])
    /\ \A i \in (N + 1)..(2 * N) : IsGet(hist[i])
    /\ hist[2 * N].res = RSome(N)

\* a step of a try_insert call on a buffer holding N elements: nothing shared
\* changes, no slot is reserved, and a return is Err of the value offered
C2_Step ==
    \A t \in Threads :
        (/\ end - start = N
         /\ \/ pc[t] = "idle" /\ pc'[t] = "i_load_reserved"
            \/ pc[t] \in {"i_load_reserved", "i_load_start", "i_cas", "i_write", "i_publish"})
        => /\ UNCHANGED <<start, end, reserved, data>>
           /\ pc'[t] \in {"i_load_reserved", "i_load_start", "i_cas", "idle"}
           /\ pc'[t] = "idle" =>
                /\ result'[t] = RErr(v[t])
                /\ hist' = Append(hist, [op |-> "insert", arg |-> offered, res |-> RErr(offered)])

\* C2: rejection on full. Every step of a try_insert call made while the buffer
\* holds N elements leaves start, end, reserved and every slot as they were, and
\* the call returns Err carrying exactly the value it was offered.
C2_RejectOnFull == [][C2_Step]_vars

\* C2 witness: a try_insert on a buffer holding N elements has returned Err
C2_Witness ==
    /\ Quiet
    /\ Len(hist) > 0
    /\ hist[Len(hist)].res[1] = "Err"
    /\ Held(Len(hist) - 1) = N
    /\ end - start = N

\* C3: capacity boundary. On a new buffer with no removals, the first N
\* try_insert calls return Ok and the (N+1)-th returns Err.
C3_CapacityBoundary ==
    \A i \in 1..Len(hist) :
        (i <= N + 1 /\ \A j \in 1..i : IsInsert(hist[j]))
        => hist[i].res = IF i <= N THEN ROk ELSE RErr(hist[i].arg)

\* C3 witness: N + 1 inserts and no removal have completed
C3_Witness ==
    /\ Len(hist) = N + 1
    /\ \A j \in 1..(N + 1) : IsInsert(hist[j])

\* the logged calls that inserted, and those that removed, in call order
OkInserts == SelectSeq(hist, IsOkInsert)
SomeGets == SelectSeq(hist, IsSomeGet)

\* C4: wraparound preserves order. In a single-threaded run with more than N
\* successful insertions, the i-th successful try_get returned the value of the
\* i-th successful try_insert: the oldest value inserted and not yet removed.
C4_WrapOrder ==
    Len(OkInserts) > N =>
        /\ Len(SomeGets) <= Len(OkInserts)
        /\ \A i \in 1..Len(SomeGets) : SomeGets[i].res = RSome(OkInserts[i].arg)

\* C4 witness: the run of tests::single_thread_overflow: insert 1,2,3, remove
\* three, insert 4,5, remove two, the last two removals giving 4 then 5 from
\* positions that wrapped round the array
C4_Witness ==
    /\ Len(hist) = 10
    /\ \A i \in {1, 2, 3, 7, 8} : IsOkInsert(hist[i])
    /\ \A i \in {4, 5, 6, 9, 10} : IsGet(hist[i])
    /\ hist[9].res = RSome(4)
    /\ hist[10].res = RSome(5)
    /\ start = 5
    /\ start > N

\* C5: round trip. On an empty buffer, try_insert(v) immediately followed by
\* try_get returns Ok and then Some(v); the buffer is empty afterwards and a
\* further try_get returns None.
C5_RoundTrip ==
    \A i \in 1..Len(hist) :
        (/\ i < Len(hist)
         /\ Held(i - 1) = 0
         /\ IsInsert(hist[i])
         /\ IsGet(hist[i + 1]))
        => /\ hist[i].res = ROk
           /\ hist[i + 1].res = RSome(hist[i].arg)
           /\ (Len(hist) = i + 1 /\ Quiet) => (start = end /\ end = reserved)
           /\ (i + 2 <= Len(hist) /\ IsGet(hist[i + 2])) => hist[i + 2].res = RNone

\* C5 witness: after earlier traffic emptied the buffer again, an insert, a
\* removal of the same value and a further removal returning None
C5_Witness ==
    /\ Len(hist) >= 5
    /\ Held(Len(hist) - 3) = 0
    /\ IsOkInsert(hist[Len(hist) - 2])
    /\ hist[Len(hist) - 1].res = RSome(hist[Len(hist) - 2].arg)
    /\ hist[Len(hist)] = [op |-> "get", arg |-> 0, res |-> RNone]

\* C6: removal frees exactly one place. On a buffer holding N elements, after
\* one successful try_get the next try_insert returns Ok and the one after it
\* returns Err.
C6_OnePlaceFreed ==
    \A i \in 1..Len(hist) :
        (Held(i - 1) = N /\ IsGet(hist[i]))
        => /\ IsSomeGet(hist[i])
           /\ (i + 1 <= Len(hist) /\ IsInsert(hist[i + 1])) => hist[i + 1].res = ROk
           /\ (i + 2 <= Len(hist) /\ IsInsert(hist[i + 1]) /\ IsInsert(hist[i + 2]))
                => hist[i + 2].res = RErr(hist[i + 2].arg)

\* C6 witness: full, one removal, one insert accepted, the next rejected
C6_Witness ==
    \E i \in 1..Len(hist) :
        /\ i + 2 <= Len(hist)
        /\ Held(i - 1) = N
        /\ IsSomeGet(hist[i])
        /\ hist[i + 1].res = ROk
        /\ hist[i + 2].res[1] = "Err"

\* ------------------------------------------------------- concurrent clients
\* C7: one producer, one consumer. With the producer inserting 0,1,2,... and
\* retrying on Err while the consumer polls, the Some results are, in order,
\* exactly 0,1,2,...: the i-th comes from logical position i and is the i-th
\* value inserted, none skipped and none repeated.
C7_InOrder ==
    /\ Len(got) <= Expected
    /\ \A i \in 1..Len(got) : got[i].val = i - 1 /\ got[i].pos = i - 1

\* C7 witness: the consumer has received every value the producer inserted,
\* more of them than the buffer has slots
C7_Witness ==
    /\ Len(got) = Expected
    /\ Expected > N
    /\ got[Expected].val = MaxCount - 1
    /\ result[2] = RSome(MaxCount - 1)

\* the values the consumer has been handed
GotValues == {got[i].val : i \in 1..Len(got)}

\* C8: two producers, one consumer. No value is returned twice, every value
\* returned is the one the producer that reserved its position wrote there,
\* and once all insertions have been consumed the values returned are exactly
\* the union of the two producers' disjoint sets.
C8_NoLossNoDup ==
    /\ Len(got) <= Expected
    /\ \A i, j \in 1..Len(got) : i # j => got[i].val # got[j].val
    /\ \A i \in 1..Len(got) : got[i].pos < Len(put) /\ got[i].val = put[got[i].pos + 1]
    /\ Len(got) = Expected => GotValues = 0..(Expected - 1)

\* C8 witness: everything both producers inserted has been consumed, and the
\* two producers' values did not arrive sorted, so their insertions interleaved
C8_Witness ==
    /\ Len(got) = Expected
    /\ GotValues = 0..(Expected - 1)
    /\ \E i \in 1..(Len(got) - 1) : got[i].val > got[i + 1].val

\* every logical position below start was returned once, with the value its
\* producer wrote, and no position at or above start was returned
C9_Delivered ==
    /\ Len(got) = start
    /\ \A i \in 1..Len(got) : got[i].pos = i - 1 /\ got[i].val = put[i]

\* a try_get leaves its compare-exchange either having advanced start and
\* returning Some, or returning nothing and going back to reload start
C9_Step ==
    \A t \in Threads :
        (pc[t] = "g_cas" /\ pc'[t] # "g_cas")
        => \/ /\ pc'[t] = "idle"
              /\ start = l_start[t]
              /\ start' = start + 1
              /\ result'[t] = RSome(val_uninit[t])
              /\ got' = Append(got, [pos |-> l_start[t], val |-> val_uninit[t]])
           \/ /\ pc'[t] = "g_load_start"
              /\ result'[t] = RPending
              /\ UNCHANGED <<start, got>>

\* C9: exactly-once delivery among concurrent consumers. Every published
\* position is returned as Some by exactly one try_get; a consumer whose
\* compare-exchange on start fails returns nothing for it and retries.
C9_ExactlyOnce == []C9_Delivered /\ [][C9_Step]_vars

\* C9 witness: two consumers read the same position, one has won it and the
\* other still holds its stale read and is about to lose the compare-exchange
C9_Witness ==
    \E t \in Threads :
        /\ pc[t] = "g_cas"
        /\ l_start[t] < start
        /\ Len(got) > l_start[t]
        /\ got[l_start[t] + 1].val = val_uninit[t]

\* thread t has written its slot and its compare-exchange on end cannot succeed
Blocked(t) == pc[t] = "i_publish" /\ end # place[t]

\* C10 as claimed: lock-free progress. Whichever one thread s is never scheduled
\* again, if calls of the other threads are in progress then one of those calls
\* can still be advanced by its own thread (otherwise none of them ever completes).
C10_LockFree ==
    \A s \in Threads :
        LET running == {t \in Threads \ {s} : pc[t] # "idle"}
        IN  running # {} => \E t \in running : ~Blocked(t)

\* C10 amended: a call waits on another thread only in the publish loop of
\* try_insert, and then only on the producer that reserved position end, which
\* is itself never blocked; so while calls are in progress some call can advance.
C10_WaitsOnlyOnEarlierProducer ==
    /\ \A t \in Threads :
          Blocked(t) =>
            /\ end < place[t]
            /\ \E u \in Threads \ {t} :
                  /\ pc[u] \in {"i_write", "i_publish"}
                  /\ place[u] = end
                  /\ ~Blocked(u)
    /\ (\E t \in Threads : pc[t] # "idle") => (\E t \in Threads : pc[t] # "idle" /\ ~Blocked(t))

\* C10 witness: a producer has written its slot and spins because the producer
\* of the position before it has reserved but not yet written
C10_Witness ==
    \E t, u \in Threads :
        /\ Blocked(t)
        /\ pc[u] = "i_write"
        /\ place[u] = end
        /\ place[t] = end + 1

\* -------------------------------------------------------------- destruction
\* the values held at the logical positions start .. end - 1, oldest first
Queued == [i \in 1..(end - start) |-> put[start + i]]

\* C11: destruction releases queued elements. Once the RingBuffer has been
\* destroyed, every element still held at a position in [start, end) has been
\* dropped exactly once: none that was inserted and never removed is leaked.
C11_DestroyDropsQueued == ~alive => dropped = Queued

\* ------------------------------------------------------ counters and slots
\* every counter is unchanged or one more than it was
C12_Step ==
    /\ start' \in {start, start + 1}
    /\ end' \in {end, end + 1}
    /\ reserved' \in {reserved, reserved + 1}

\* C12: counter ordering. In every reachable state start <= end <= reserved,
\* and a counter only ever changes by increasing by exactly one.
C12_CounterOrder == [](start <= end /\ end <= reserved) /\ [][C12_Step]_vars

\* C12 witness: elements consumed, elements published and waiting, and a
\* position reserved but not yet published, all at once
C12_Witness == 0 < start /\ start < end /\ end < reserved

\* C13: capacity. In every reachable state reserved - start <= N, and so no two
\* logical positions in [start, reserved) share a physical slot.
C13_Capacity ==
    /\ reserved - start <= N
    /\ \A p, q \in start..(reserved - 1) : p # q => Index(p) # Index(q)

\* C13 witness: every slot is reserved, the window has moved off position 0, and
\* a producer holds a read of reserved that is stale by now
C13_Witness ==
    /\ reserved - start = N
    /\ start > 0
    /\ \E t \in Threads : pc[t] = "i_cas" /\ l_reserved[t] < reserved

\* the producers that hold logical position p and have not yet published it
Holders(p) == {t \in Threads : pc[t] \in {"i_write", "i_publish"} /\ place[t] = p}

\* end moves only by the publish of the producer that reserved position end,
\* after that producer wrote its value to the slot of that position
C14_Step ==
    end' # end =>
        \E t \in Threads :
            /\ Holders(end) = {t}
            /\ pc[t] = "i_publish"
            /\ pc'[t] = "idle"
            /\ result'[t] = ROk
            /\ end' = end + 1
            /\ data[Index(end)] = v[t]
            /\ put[end + 1] = v[t]

\* C14: publication in reservation order. end advances from p to p+1 only by
\* the producer that won the compare-exchange on reserved at p, and only after
\* it wrote its value to slot p mod N; a producer of a later position that has
\* finished writing cannot publish before that.
C14_PublishInOrder == [][C14_Step]_vars

\* C14 witness: the producer of position end + 1 has written and is in the
\* publish loop while the producer of position end has not written yet, with
\* earlier positions already published
C14_Witness ==
    /\ end > 0
    /\ \E t, u \in Threads :
          /\ pc[t] = "i_publish" /\ place[t] = end + 1
          /\ pc[u] = "i_write" /\ place[u] = end

\* C15: no holes. For every position p in [start, end) slot p mod N holds the
\* value written by the producer that claimed p; every position in
\* [end, reserved) is claimed by exactly one producer that has not published.
C15_NoHoles ==
    /\ Len(put) = reserved
    /\ \A p \in start..(end - 1) : data[Index(p)] = put[p + 1] /\ Holders(p) = {}
    /\ \A p \in end..(reserved - 1) : Cardinality(Holders(p)) = 1

\* C15 witness: positions have wrapped round the array, with published
\* elements waiting and a claimed position not yet published
C15_Witness == reserved > N /\ start < end /\ end < reserved

\* thread t's try_get returns Some in this step
ReturnsSome(t) == pc[t] = "g_cas" /\ pc'[t] = "idle"

\* thread t's compare-exchange on start fails in this step
LosesCas(t) == pc[t] = "g_cas" /\ pc'[t] = "g_load_start"

\* a try_get returns Some(x) only on advancing start from its s to s + 1, x
\* being what the producer of position s wrote; a failed one returns nothing
C16_Step ==
    \A t \in Threads :
        /\ result'[t] # result[t] /\ result'[t][1] = "Some" => ReturnsSome(t)
        /\ ReturnsSome(t) =>
              /\ start = l_start[t]
              /\ start' = l_start[t] + 1
              /\ val_uninit[t] = put[l_start[t] + 1]
              /\ data[Index(l_start[t])] = val_uninit[t]
              /\ result'[t] = RSome(put[l_start[t] + 1])
        /\ LosesCas(t) => result'[t] = RPending /\ got' = got /\ val_uninit'[t] = Uninit

\* C16: the speculative read is validated by the claim. try_get returns Some(x)
\* only when its compare-exchange on start from s to s+1 succeeded, and x is
\* then the value the producer of position s wrote: the slot was published when
\* it was read and not overwritten up to the compare-exchange. When the
\* compare-exchange fails the value read is discarded.
C16_ReadValidated ==
    /\ [](\A t \in Threads :
            (pc[t] = "g_cas" /\ l_start[t] = start) =>
                /\ start < end
                /\ val_uninit[t] = put[start + 1]
                /\ data[Index(start)] = val_uninit[t])
    /\ [][C16_Step]_vars

\* C16 witness: a try_get holds a read that is not the value of the position it
\* read for (the slot was being rewritten, or had been), and start has moved
\* on, so its compare-exchange will fail and the read be discarded
C16_Witness ==
    \E t \in Threads :
        /\ pc[t] = "g_cas"
        /\ l_start[t] < start
        /\ val_uninit[t] # put[l_start[t] + 1]

\* thread t reads a slot in this step
ReadsSlot(t) == pc[t] = "g_read" /\ pc'[t] = "g_cas"

\* C17: no read of a slot under write. No try_get reads a physical slot, even
\* speculatively, while a producer holds the write claim on that slot and has
\* not yet published it.
C17_NoReadUnderWrite ==
    [][\A t \in Threads :
          ReadsSlot(t) =>
              ~\E u \in Threads :
                  /\ pc[u] \in {"i_write", "i_publish"}
                  /\ Index(place[u]) = Index(l_start[t])]_vars

\* ------------------------------------------------------------- termination
\* every thread keeps being scheduled, and a compare-exchange whose expected
\* value matches again and again eventually succeeds
Fairness ==
    \A t \in 1..NFree :
        /\ WF_vars(Step(t))
        /\ SF_vars(ReserveCasOk(t) \/ GetCasOk(t))

FairSpec == InitFair /\ [][Next]_vars /\ Fairness

\* C18: termination under fair scheduling. With finitely many calls, every
\* call in progress eventually returns; in particular a producer spinning in
\* the publish loop gets to publish, and no state with a call in progress is
\* a deadlock.
C18_Termination == <>[](\A t \in Threads : pc[t] = "idle")

\* C18 witness: the last call the callers make is in progress while a producer
\* spins in the publish loop behind a producer that has not written yet
C18_Witness ==
    /\ calls = MaxFairCalls
    /\ \E t \in Threads : Blocked(t)

\* thread t's try_insert returns Ok in this step
ReturnsOk(t) == pc[t] = "i_publish" /\ pc'[t] = "idle"

\* thread t's try_get returns None in this step
ReturnsNone(t) == pc[t] = "g_load_end" /\ pc'[t] = "idle"

\* thread t's try_insert returns Err in this step
ReturnsErr(t) == pc[t] = "i_load_start" /\ pc'[t] = "idle"

\* C19: no spurious empty after a completed insert. When try_insert returns Ok
\* its element is published (end is past the position it claimed); the elements
\* of completed inserts not yet removed are those in [start, end), and try_get
\* returns None only when there is none of them.
C19_NoSpuriousEmpty ==
    [][\A t \in Threads :
          /\ ReturnsOk(t) => (result'[t] = ROk /\ end' > place[t] /\ start <= place[t])
          /\ ReturnsNone(t) => (result'[t] = RNone /\ ~(start < end))]_vars

\* C19 witness: a try_get has returned None after elements went through the
\* buffer, while another insert has reserved a position but not yet returned
C19_Witness ==
    \E t \in Threads :
        /\ result[t] = RNone
        /\ start > 0
        /\ start = end
        /\ end < reserved

\* C20: failure outcomes are justified by a real state. try_insert returns Err
\* only at an instant of the call at which reserved - start = N, and try_get
\* returns None only at an instant of the call at which start = end: the two
\* local reads of each agree with the counters as they are at its second load.
C20_FailureJustified ==
    [][\A t \in Threads :
          /\ ReturnsErr(t) =>
                (reserved - start = N /\ l_reserved[t] = reserved /\ result'[t] = RErr(v[t]))
          /\ ReturnsNone(t) => (start = end /\ l_start[t] = start)]_vars

\* C20 witness: a try_insert has returned Err on a full buffer while another
\* thread is in the middle of a try_get
C20_Witness ==
    \E t, u \in Threads :
        /\ result[t][1] = "Err"
        /\ reserved - start = N
        /\ pc[u] \in {"g_load_end", "g_read", "g_cas"}

====
